---- MODULE Spec2Model ----
(***************************************************************************)
(* The feeder gateway of starknet-devnet                                   *)
(* (src/starknet_devnet/blueprints/feeder_gateway.py): one action per      *)
(* route handler.  A handler reads the query parameters or the body of its *)
(* request, invokes the state engine (state.starknet_wrapper) and finishes *)
(* by returning a value, by abort(Response(..)), or by letting an          *)
(* exception escape.  The engine is an external collaborator: what it      *)
(* answers (a value, or an exception of some class) is an input of the     *)
(* request.  The variables record the request handled last and everything  *)
(* its handler did.                                                        *)
(***************************************************************************)
EXTENDS Integers, Sequences, FiniteSets

VARIABLES
    op,      \* the route of the request handled last ("none" before any)
    args,    \* request.args of that request
    data,    \* request.data of that request
    eng,     \* what the engine answers when that request invokes it
    calls,   \* the engine operations the handler invoked, in order
    resp,    \* how the handler finished
    log      \* the notices the handler printed

vars == <<op, args, data, eng, calls, resp, log>>

-----------------------------------------------------------------------------
(* Bounds of the model. *)

\* longest text of a contractAddress or blockNumber parameter
MaxLen == 3
\* longest text of a blockHash, key or transactionHash parameter
MaxShort == 1
\* engine results and decoded call specifications are the payloads 0..MaxPayload
MaxPayload == 1

-----------------------------------------------------------------------------
(* Values. *)

\* Python's None, and a present value x, as sequences of length 0 and 1.
None == <<>>
Some(x) == <<x>>

\* The characters a parameter text is made of: a decimal digit, a
\* hexadecimal-only digit and the letter of the "0x" prefix.
Alphabet == {"0", "a", "x"}

\* The texts of at most n characters (sequences of characters).
Texts(n) == UNION {[1..k -> Alphabet] : k \in 0..n}

\* A query parameter is absent or carries a text.
Param(n) == {None} \cup {Some(t) : t \in Texts(n)}

Payloads == 0..MaxPayload

\* The exception classes the engine raises, with the classes each one is an
\* instance of: StarknetDevnetException derives from StarkException.
Bases(cls) ==
    CASE cls = "StarknetDevnetException" ->
            {"StarknetDevnetException", "StarkException", "Exception"}
      [] cls = "StarkException" -> {"StarkException", "Exception"}
      [] OTHER -> {cls, "Exception"}

IsInstance(exc, cls) == cls \in Bases(exc.cls)

EngineMessages == {"engine message"}

\* What the engine does when invoked: it returns a payload or raises.
EngineOutcomes ==
    {[kind |-> "ok", value |-> v] : v \in Payloads}
    \cup {[kind |-> "raise", exc |-> [cls |-> c, message |-> m]] :
            c \in {"StarkException", "StarknetDevnetException", "Exception"},
            m \in EngineMessages}

\* What InvokeFunction.loads does with a request body: it returns the decoded
\* call specification or raises.
Bodies ==
    {[loads |-> "ok", value |-> v] : v \in Payloads}
    \cup {[loads |-> "raise", exc |-> [cls |-> c, message |-> "invalid"]] :
            c \in {"TypeError", "ValidationError", "ValueError"}}

\* A GET request carries no body.
NoBody == [loads |-> "none"]

NoArgs ==
    [blockHash |-> None, blockNumber |-> None, contractAddress |-> None,
     key |-> None, transactionHash |-> None]

-----------------------------------------------------------------------------
(* custom_int and request.args.get(.., type=custom_int). *)

IsDecDigit(c) == c = "0"
IsHexDigit(c) == c \in {"0", "a"}
DigitValue(c) == IF c = "a" THEN 10 ELSE 0

RECURSIVE DigitsValue(_, _)
DigitsValue(t, base) ==
    IF t = <<>> THEN 0
    ELSE DigitsValue(SubSeq(t, 1, Len(t) - 1), base) * base + DigitValue(t[Len(t)])

StartsWith0x(t) == Len(t) >= 2 /\ t[1] = "0" /\ t[2] = "x"

\* int(arg, base) with base 16 when arg starts with "0x", otherwise 10;
\* ok = FALSE is the ValueError of a text that is no integer in that base.
custom_int(t) ==
    IF StartsWith0x(t)
    THEN LET d == SubSeq(t, 3, Len(t)) IN
         IF d # <<>> /\ \A i \in 1..Len(d) : IsHexDigit(d[i])
         THEN [ok |-> TRUE, value |-> DigitsValue(d, 16)]
         ELSE [ok |-> FALSE, value |-> 0]
    ELSE IF t # <<>> /\ \A i \in 1..Len(t) : IsDecDigit(t[i])
         THEN [ok |-> TRUE, value |-> DigitsValue(t, 10)]
         ELSE [ok |-> FALSE, value |-> 0]

\* request.args.get(name): the text, or None when the parameter is absent.
ArgsGet(p) == p

\* request.args.get(name, type=custom_int): None when the parameter is absent
\* and also when custom_int raises ValueError on its text.
ArgsGetInt(p) ==
    IF p = None THEN None
    ELSE LET r == custom_int(p[1]) IN IF r.ok THEN Some(r.value) ELSE None

-----------------------------------------------------------------------------
(* Responses. *)

\* jsonify(x): a JSON response carrying x.
jsonify(x) == [json |-> x]

\* The handler returns the body b (Flask answers 200).
Return(b) == [kind |-> "return", status |-> 200, body |-> b]

\* A plain-text body: the pieces of the text, in order.
Text(pieces) == [text |-> pieces]

\* abort(Response(b, code))
Abort(b, code) == [kind |-> "abort", status |-> code, body |-> b]

\* An exception leaves the handler uncaught.
Uncaught(exc) == [kind |-> "raise", exc |-> exc]

\* What a handler did: the engine calls, the response, the printed notices.
Outcome(c, r, l) == [calls |-> c, resp |-> r, log |-> l]

Call(n, a) == [name |-> n, args |-> a]

-----------------------------------------------------------------------------
(* Helpers of the handlers. *)

\* as validate_call, with the failure answered 404
validate_call_404(d) ==
    IF d.loads = "ok" THEN [kind |-> "ok", value |-> d.value]
    ELSE IF IsInstance(d.exc, "TypeError") \/ IsInstance(d.exc, "ValidationError")
    THEN [kind |-> "abort",
          resp |-> Abort(Text(<<"Invalid Starknet function call: ", d.exc.message>>), 404)]
    ELSE [kind |-> "raise", resp |-> Uncaught(d.exc)]

\* validate_call(data): the decoded call, abort(400) on TypeError or
\* ValidationError; any other exception of loads is not caught.
validate_call(d) ==
    IF d.loads = "ok" THEN [kind |-> "ok", value |-> d.value]
    ELSE IF IsInstance(d.exc, "TypeError") \/ IsInstance(d.exc, "ValidationError")
    THEN [kind |-> "abort",
          resp |-> Abort(Text(<<"Invalid Starknet function call: ", d.exc.message>>), 400)]
    ELSE [kind |-> "raise", resp |-> Uncaught(d.exc)]

\* validate_transaction(data, InvokeFunction) of blueprints/shared.py: the call
\* specification parsed against the same schema, abort(400) on a violation.
validate_transaction(d) ==
    IF d.loads = "ok" THEN [kind |-> "ok", value |-> d.value]
    ELSE IF IsInstance(d.exc, "TypeError") \/ IsInstance(d.exc, "ValidationError")
    THEN [kind |-> "abort",
          resp |-> Abort(Text(<<"Invalid tx: ", d.exc.message>>), 400)]
    ELSE [kind |-> "raise", resp |-> Uncaught(d.exc)]

HashNotice ==
    "Specifying a block by its hash is not supported. All interaction is done with the latest block."

\* _check_block_hash(request.args): the notices it prints.
_check_block_hash(a) ==
    LET block_hash == ArgsGetInt(a.blockHash) IN
    IF block_hash # None THEN <<HashNotice>> ELSE <<>>

AmbiguousMessage ==
    "Ambiguous criteria: only one of (block number, block hash) can be provided."

\* _check_block_arguments(block_hash, block_number): "ok", or the abort.
_check_block_arguments(block_hash, block_number) ==
    IF block_hash # None /\ block_number # None
    THEN [kind |-> "abort", resp |-> Abort(Text(<<AmbiguousMessage>>), 500)]
    ELSE [kind |-> "ok"]

-----------------------------------------------------------------------------
(* The handlers: what each does with its request and the engine's answer. *)

is_alive == Outcome(<<>>, Return(Text(<<"Alive!!!">>)), <<>>)

get_contract_addresses ==
    Outcome(<<>>, [kind |-> "return", status |-> 501,
                   body |-> Text(<<"Not implemented">>)], <<>>)

\* as call_contract, with the engine's result replaced in the response
call_contract_other_result(d, e) ==
    LET v == validate_call(d) IN
    IF v.kind # "ok" THEN Outcome(<<>>, v.resp, <<>>)
    ELSE LET c == <<Call("call", <<v.value>>)>> IN
         IF e.kind = "ok" THEN Outcome(c, Return(jsonify(0)), <<>>)
         ELSE IF IsInstance(e.exc, "StarkException")
         THEN Outcome(c, Abort(Text(<<e.exc.message>>), 500), <<>>)
         ELSE Outcome(c, Uncaught(e.exc), <<>>)

call_contract(d, e) ==
    LET v == validate_call(d) IN
    IF v.kind # "ok" THEN Outcome(<<>>, v.resp, <<>>)
    ELSE LET c == <<Call("call", <<v.value>>)>> IN
         IF e.kind = "ok" THEN Outcome(c, Return(jsonify(e.value)), <<>>)
         ELSE IF IsInstance(e.exc, "StarkException")
         THEN Outcome(c, Abort(Text(<<e.exc.message>>), 500), <<>>)
         ELSE Outcome(c, Uncaught(e.exc), <<>>)

\* as get_block, with every block fetched by number
get_block_by_number_only(a, e) ==
    LET block_hash == ArgsGet(a.blockHash)
        block_number == ArgsGetInt(a.blockNumber)
        chk == _check_block_arguments(block_hash, block_number)
    IN
    IF chk.kind # "ok" THEN Outcome(<<>>, chk.resp, <<>>)
    ELSE LET c == <<Call("get_block_by_number", <<block_number>>)>> IN
         IF e.kind = "ok" THEN Outcome(c, Return(jsonify(e.value)), <<>>)
         ELSE IF IsInstance(e.exc, "StarkException")
         THEN Outcome(c, Abort(Text(<<e.exc.message>>), 500), <<>>)
         ELSE Outcome(c, Uncaught(e.exc), <<>>)

get_block(a, e) ==
    LET block_hash == ArgsGet(a.blockHash)
        block_number == ArgsGetInt(a.blockNumber)
        chk == _check_block_arguments(block_hash, block_number)
    IN
    IF chk.kind # "ok" THEN Outcome(<<>>, chk.resp, <<>>)
    ELSE LET c == IF block_hash # None
                  THEN <<Call("get_block_by_hash", <<block_hash>>)>>
                  ELSE <<Call("get_block_by_number", <<block_number>>)>>
         IN
         IF e.kind = "ok" THEN Outcome(c, Return(jsonify(e.value)), <<>>)
         ELSE IF IsInstance(e.exc, "StarkException")
         THEN Outcome(c, Abort(Text(<<e.exc.message>>), 500), <<>>)
         ELSE Outcome(c, Uncaught(e.exc), <<>>)

\* as get_code, with the block hash handed on to the engine
get_code_at_hash(a, e) ==
    LET l == _check_block_hash(a)
        contract_address == ArgsGetInt(a.contractAddress)
        c == <<Call("get_code", <<contract_address, ArgsGetInt(a.blockHash)>>)>>
    IN
    IF e.kind = "ok" THEN Outcome(c, Return(jsonify(e.value)), l)
    ELSE Outcome(c, Uncaught(e.exc), l)

get_code(a, e) ==
    LET l == _check_block_hash(a)
        contract_address == ArgsGetInt(a.contractAddress)
        c == <<Call("get_code", <<contract_address>>)>>
    IN
    IF e.kind = "ok" THEN Outcome(c, Return(jsonify(e.value)), l)
    ELSE Outcome(c, Uncaught(e.exc), l)

get_full_contract(a, e) ==
    LET l == _check_block_hash(a)
        contract_address == ArgsGetInt(a.contractAddress)
        c == <<Call("get_full_contract", <<contract_address>>)>>
    IN
    IF e.kind = "ok" THEN Outcome(c, Return(jsonify(e.value)), l)
    ELSE IF IsInstance(e.exc, "StarknetDevnetException")
    THEN Outcome(c, Abort(Text(<<e.exc.message>>), 500), l)
    ELSE Outcome(c, Uncaught(e.exc), l)

get_storage_at(a, e) ==
    LET l == _check_block_hash(a)
        contract_address == ArgsGetInt(a.contractAddress)
        key == ArgsGetInt(a.key)
        c == <<Call("get_storage_at", <<contract_address, key>>)>>
    IN
    IF e.kind = "ok" THEN Outcome(c, Return(jsonify(e.value)), l)
    ELSE Outcome(c, Uncaught(e.exc), l)

get_transaction_status(a, e) ==
    LET transaction_hash == ArgsGet(a.transactionHash)
        c == <<Call("get_transaction_status", <<transaction_hash>>)>>
    IN
    IF e.kind = "ok" THEN Outcome(c, Return(jsonify(e.value)), <<>>)
    ELSE Outcome(c, Uncaught(e.exc), <<>>)

get_transaction(a, e) ==
    LET transaction_hash == ArgsGet(a.transactionHash)
        c == <<Call("get_transaction", <<transaction_hash>>)>>
    IN
    IF e.kind = "ok" THEN Outcome(c, Return(jsonify(e.value)), <<>>)
    ELSE Outcome(c, Uncaught(e.exc), <<>>)

get_transaction_receipt(a, e) ==
    LET transaction_hash == ArgsGet(a.transactionHash)
        c == <<Call("get_transaction_receipt", <<transaction_hash>>)>>
    IN
    IF e.kind = "ok" THEN Outcome(c, Return(jsonify(e.value)), <<>>)
    ELSE Outcome(c, Uncaught(e.exc), <<>>)

\* as get_transaction_trace, with the engine's failure answered 404
get_transaction_trace_404(a, e) ==
    LET transaction_hash == ArgsGet(a.transactionHash)
        c == <<Call("get_transaction_trace", <<transaction_hash>>)>>
    IN
    IF e.kind = "ok" THEN Outcome(c, Return(jsonify(e.value)), <<>>)
    ELSE IF IsInstance(e.exc, "StarkException")
    THEN Outcome(c, Abort([exc |-> e.exc], 404), <<>>)
    ELSE Outcome(c, Uncaught(e.exc), <<>>)

\* The body of the abort is the exception itself, not its message.
get_transaction_trace(a, e) ==
    LET transaction_hash == ArgsGet(a.transactionHash)
        c == <<Call("get_transaction_trace", <<transaction_hash>>)>>
    IN
    IF e.kind = "ok" THEN Outcome(c, Return(jsonify(e.value)), <<>>)
    ELSE IF IsInstance(e.exc, "StarkException")
    THEN Outcome(c, Abort([exc |-> e.exc], 500), <<>>)
    ELSE Outcome(c, Uncaught(e.exc), <<>>)

\* as get_state_update, with get_block's check of the two arguments
get_state_update_checked(a, e) ==
    LET block_hash == ArgsGet(a.blockHash)
        block_number == ArgsGetInt(a.blockNumber)
        chk == _check_block_arguments(block_hash, block_number)
        c == <<Call("get_state_update", <<block_hash, block_number>>)>>
    IN
    IF chk.kind # "ok" THEN Outcome(<<>>, chk.resp, <<>>)
    ELSE IF e.kind = "ok" THEN Outcome(c, Return(jsonify(e.value)), <<>>)
    ELSE IF IsInstance(e.exc, "StarkException")
    THEN Outcome(c, Abort(Text(<<e.exc.message>>), 500), <<>>)
    ELSE Outcome(c, Uncaught(e.exc), <<>>)

get_state_update(a, e) ==
    LET block_hash == ArgsGet(a.blockHash)
        block_number == ArgsGetInt(a.blockNumber)
        c == <<Call("get_state_update", <<block_hash, block_number>>)>>
    IN
    IF e.kind = "ok" THEN Outcome(c, Return(jsonify(e.value)), <<>>)
    ELSE IF IsInstance(e.exc, "StarkException")
    THEN Outcome(c, Abort(Text(<<e.exc.message>>), 500), <<>>)
    ELSE Outcome(c, Uncaught(e.exc), <<>>)

\* as estimate_fee, with the unit misnamed
estimate_fee_other_unit(d, e) ==
    LET v == validate_transaction(d) IN
    IF v.kind # "ok" THEN Outcome(<<>>, v.resp, <<>>)
    ELSE LET c == <<Call("calculate_actual_fee", <<v.value>>)>> IN
         IF e.kind = "ok"
         THEN Outcome(c, Return(jsonify([amount |-> e.value, unit |-> "eth"])), <<>>)
         ELSE IF IsInstance(e.exc, "StarkException")
         THEN Outcome(c, Abort(Text(<<e.exc.message>>), 500), <<>>)
         ELSE Outcome(c, Uncaught(e.exc), <<>>)

estimate_fee(d, e) ==
    LET v == validate_transaction(d) IN
    IF v.kind # "ok" THEN Outcome(<<>>, v.resp, <<>>)
    ELSE LET c == <<Call("calculate_actual_fee", <<v.value>>)>> IN
         IF e.kind = "ok"
         THEN Outcome(c, Return(jsonify([amount |-> e.value, unit |-> "wei"])), <<>>)
         ELSE IF IsInstance(e.exc, "StarkException")
         THEN Outcome(c, Abort(Text(<<e.exc.message>>), 500), <<>>)
         ELSE Outcome(c, Uncaught(e.exc), <<>>)

-----------------------------------------------------------------------------
(* The state machine: each action is one request handled by its route, from
   the request's arrival to the handler's end. *)

Init ==
    /\ op = "none"
    /\ args = NoArgs
    /\ data = NoBody
    /\ eng = [kind |-> "none"]
    /\ calls = <<>>
    /\ resp = [kind |-> "none"]
    /\ log = <<>>

\* No request has been handled yet.  The gateway keeps nothing from one request
\* to the next, so a behaviour follows one request to the end of its handler.
Idle == op = "none"

IsAlive ==
    /\ Idle
    /\ \E e \in EngineOutcomes :
           LET a == NoArgs
               out == is_alive
           IN
           /\ op' = "is_alive"
           /\ args' = a
           /\ data' = NoBody
           /\ eng' = e
           /\ calls' = out.calls
           /\ resp' = out.resp
           /\ log' = out.log

GetContractAddresses ==
    /\ Idle
    /\ \E e \in EngineOutcomes :
           LET a == NoArgs
               out == get_contract_addresses
           IN
           /\ op' = "get_contract_addresses"
           /\ args' = a
           /\ data' = NoBody
           /\ eng' = e
           /\ calls' = out.calls
           /\ resp' = out.resp
           /\ log' = out.log

CallContract ==
    /\ Idle
    /\ \E d \in Bodies, e \in EngineOutcomes :
           LET a == NoArgs
               out == call_contract(d, e)
           IN
           /\ op' = "call_contract"
           /\ args' = a
           /\ data' = d
           /\ eng' = e
           /\ calls' = out.calls
           /\ resp' = out.resp
           /\ log' = out.log

GetBlock ==
    /\ Idle
    /\ \E h \in Param(MaxShort), n \in Param(MaxLen), e \in EngineOutcomes :
           LET a == [NoArgs EXCEPT !.blockHash = h, !.blockNumber = n]
               out == get_block(a, e)
           IN
           /\ op' = "get_block"
           /\ args' = a
           /\ data' = NoBody
           /\ eng' = e
           /\ calls' = out.calls
           /\ resp' = out.resp
           /\ log' = out.log

GetCode ==
    /\ Idle
    /\ \E h \in Param(MaxShort), c \in Param(MaxLen), e \in EngineOutcomes :
           LET a == [NoArgs EXCEPT !.blockHash = h, !.contractAddress = c]
               out == get_code(a, e)
           IN
           /\ op' = "get_code"
           /\ args' = a
           /\ data' = NoBody
           /\ eng' = e
           /\ calls' = out.calls
           /\ resp' = out.resp
           /\ log' = out.log

GetFullContract ==
    /\ Idle
    /\ \E h \in Param(MaxShort), c \in Param(MaxLen), e \in EngineOutcomes :
           LET a == [NoArgs EXCEPT !.blockHash = h, !.contractAddress = c]
               out == get_full_contract(a, e)
           IN
           /\ op' = "get_full_contract"
           /\ args' = a
           /\ data' = NoBody
           /\ eng' = e
           /\ calls' = out.calls
           /\ resp' = out.resp
           /\ log' = out.log

GetStorageAt ==
    /\ Idle
    /\ \E h \in Param(MaxShort), c \in Param(MaxLen), k \in Param(MaxShort),
          e \in EngineOutcomes :
           LET a == [NoArgs EXCEPT !.blockHash = h, !.contractAddress = c, !.key = k]
               out == get_storage_at(a, e)
           IN
           /\ op' = "get_storage_at"
           /\ args' = a
           /\ data' = NoBody
           /\ eng' = e
           /\ calls' = out.calls
           /\ resp' = out.resp
           /\ log' = out.log

GetTransactionStatus ==
    /\ Idle
    /\ \E t \in Param(MaxShort), e \in EngineOutcomes :
           LET a == [NoArgs EXCEPT !.transactionHash = t]
               out == get_transaction_status(a, e)
           IN
           /\ op' = "get_transaction_status"
           /\ args' = a
           /\ data' = NoBody
           /\ eng' = e
           /\ calls' = out.calls
           /\ resp' = out.resp
           /\ log' = out.log

GetTransaction ==
    /\ Idle
    /\ \E t \in Param(MaxShort), e \in EngineOutcomes :
           LET a == [NoArgs EXCEPT !.transactionHash = t]
               out == get_transaction(a, e)
           IN
           /\ op' = "get_transaction"
           /\ args' = a
           /\ data' = NoBody
           /\ eng' = e
           /\ calls' = out.calls
           /\ resp' = out.resp
           /\ log' = out.log

GetTransactionReceipt ==
    /\ Idle
    /\ \E t \in Param(MaxShort), e \in EngineOutcomes :
           LET a == [NoArgs EXCEPT !.transactionHash = t]
               out == get_transaction_receipt(a, e)
           IN
           /\ op' = "get_transaction_receipt"
           /\ args' = a
           /\ data' = NoBody
           /\ eng' = e
           /\ calls' = out.calls
           /\ resp' = out.resp
           /\ log' = out.log

GetTransactionTrace ==
    /\ Idle
    /\ \E t \in Param(MaxShort), e \in EngineOutcomes :
           LET a == [NoArgs EXCEPT !.transactionHash = t]
               out == get_transaction_trace(a, e)
           IN
           /\ op' = "get_transaction_trace"
           /\ args' = a
           /\ data' = NoBody
           /\ eng' = e
           /\ calls' = out.calls
           /\ resp' = out.resp
           /\ log' = out.log

GetStateUpdate ==
    /\ Idle
    /\ \E h \in Param(MaxShort), n \in Param(MaxLen), e \in EngineOutcomes :
           LET a == [NoArgs EXCEPT !.blockHash = h, !.blockNumber = n]
               out == get_state_update(a, e)
           IN
           /\ op' = "get_state_update"
           /\ args' = a
           /\ data' = NoBody
           /\ eng' = e
           /\ calls' = out.calls
           /\ resp' = out.resp
           /\ log' = out.log

EstimateFee ==
    /\ Idle
    /\ \E d \in Bodies, e \in EngineOutcomes :
           LET a == NoArgs
               out == estimate_fee(d, e)
           IN
           /\ op' = "estimate_fee"
           /\ args' = a
           /\ data' = d
           /\ eng' = e
           /\ calls' = out.calls
           /\ resp' = out.resp
           /\ log' = out.log

\* The routes of the blueprint: those that read no parameter, the queries of
\* contracts and transactions, the queries of blocks, and the two POST routes.
Next ==
    \/ IsAlive
    \/ GetContractAddresses
    \/ GetCode
    \/ GetFullContract
    \/ GetStorageAt
    \/ GetTransactionStatus
    \/ GetTransaction
    \/ GetTransactionReceipt
    \/ GetTransactionTrace
    \/ GetBlock
    \/ GetStateUpdate
    \/ CallContract
    \/ EstimateFee

Spec == Init /\ [][Next]_vars

-----------------------------------------------------------------------------
(* Vocabulary of the properties. *)

\* The routes whose handler invokes the state engine.
EngineOps ==
    {"call_contract", "get_block", "get_code", "get_full_contract",
     "get_storage_at", "get_transaction_status", "get_transaction",
     "get_transaction_receipt", "get_transaction_trace", "get_state_update",
     "estimate_fee"}

\* The routes that call _check_block_hash.
HashCheckedOps == {"get_code", "get_full_contract", "get_storage_at"}

Done == op # "none"

\* The handler produced a response itself (it returned or aborted).
Responded == resp.kind \in {"return", "abort"}

\* The parameter is supplied with a text custom_int does not accept.
Malformed(p) == p # None /\ ~custom_int(p[1]).ok

\* The request of the state carries an integer parameter that is malformed, or
\* lacks contractAddress or key where the route needs it.
BadInteger ==
    \/ op \in HashCheckedOps
       /\ (args.contractAddress = None \/ Malformed(args.contractAddress))
    \/ op = "get_storage_at" /\ (args.key = None \/ Malformed(args.key))
    \/ op \in {"get_block", "get_state_update"} /\ Malformed(args.blockNumber)

\* The body failed the call schema: loads raised TypeError or ValidationError.
SchemaViolation ==
    /\ data.loads = "raise"
    /\ data.exc.cls \in {"TypeError", "ValidationError"}

\* The request passed the validation its handler performs before the engine
\* is invoked.
PassedValidation ==
    CASE op \in {"call_contract", "estimate_fee"} -> data.loads = "ok"
      [] op = "get_block" ->
            ~(args.blockHash # None /\ ArgsGetInt(args.blockNumber) # None)
      [] OTHER -> TRUE

\* The body a successful request of the state's route carries for the engine
\* result v.
SuccessBody(v) ==
    IF op = "estimate_fee" THEN jsonify([amount |-> v, unit |-> "wei"])
    ELSE jsonify(v)

\* The handler of a _check_block_hash route, applied to the arguments a.
HashCheckedHandler(o, a, e) ==
    CASE o = "get_code" -> get_code(a, e)
      [] o = "get_full_contract" -> get_full_contract(a, e)
      [] OTHER -> get_storage_at(a, e)

-----------------------------------------------------------------------------
(* The properties. *)

\* C1: every get_block request that supplies both blockHash and blockNumber
\* is answered with the AmbiguousCriteria error, status 500, and invokes no
\* engine operation, whatever the two texts are.
C1_BothSuppliedIsAmbiguous ==
    (op = "get_block" /\ args.blockHash # None /\ args.blockNumber # None)
    => /\ resp = Abort(Text(<<AmbiguousMessage>>), 500)
       /\ calls = <<>>

\* C2: whenever a handler has invoked the engine and the engine raised, the
\* handler ends with a gateway error response, never with the exception
\* escaping it.
C2_EngineFailureCaught ==
    (op \in EngineOps /\ calls # <<>> /\ eng.kind = "raise")
    => resp.kind = "abort"

\* C3: a request whose integer parameter is malformed, or missing where it is
\* required, fails with MalformedInput (400) and invokes no engine operation.
C3_MalformedIntegerRejected ==
    BadInteger => /\ resp.kind = "abort"
                  /\ resp.status = 400
                  /\ calls = <<>>

\* C4: a call_contract request whose body fails call-schema validation is
\* answered 400 and never invokes the engine; no body that loads rejects
\* reaches the engine.
C4_InvalidCallRejected ==
    op = "call_contract"
    => /\ SchemaViolation => (resp.kind = "abort" /\ resp.status = 400)
       /\ data.loads # "ok" => calls = <<>>

C4_Witness ==
    /\ op = "call_contract"
    /\ SchemaViolation
    /\ resp.kind = "abort"
    /\ resp.status = 400
    /\ eng.kind = "ok"

\* C5 as stated: no get_block request makes the gateway invoke a hash-based
\* block lookup on the engine.
C5_NoHashLookup ==
    op = "get_block"
    => \A i \in 1..Len(calls) : calls[i].name # "get_block_by_hash"

\* C5 as amended: a get_block request that is not rejected as ambiguous
\* invokes exactly one engine operation: get_block_by_hash with the supplied
\* text when blockHash is supplied, and otherwise get_block_by_number with the
\* parsed blockNumber (None, the latest block, when it is absent or does not
\* parse); an ambiguous request invokes none.
C5_BlockLookup ==
    op = "get_block"
    => LET n == ArgsGetInt(args.blockNumber) IN
       /\ (args.blockHash # None /\ n # None) => calls = <<>>
       /\ (args.blockHash # None /\ n = None)
            => calls = <<Call("get_block_by_hash", <<args.blockHash>>)>>
       /\ args.blockHash = None
            => calls = <<Call("get_block_by_number", <<n>>)>>

C5_Witness ==
    /\ op = "get_block"
    /\ args.blockHash # None
    /\ args.blockNumber = None
    /\ Len(calls) = 1
    /\ calls[1].name = "get_block_by_hash"
    /\ resp.kind = "return"

C7_StatusVocabulary ==
    (Done /\ op # "get_contract_addresses" /\ Responded)
    => resp.status \in {200, 400, 500}

C7_Witness ==
    /\ op = "get_transaction_trace"
    /\ eng.kind = "raise"
    /\ resp.kind = "abort"
    /\ resp.status = 500

\* C8: a request invokes at most one engine operation, and exactly one when it
\* is a request of an engine route that passed validation; when that operation
\* succeeds the response is 200 with the engine's result unchanged (for
\* estimate_fee, unchanged in the amount field).
C8_OneEngineCall ==
    /\ Len(calls) <= 1
    /\ (op \in EngineOps /\ PassedValidation) => Len(calls) = 1
    /\ (Len(calls) = 1 /\ eng.kind = "ok") => resp = Return(SuccessBody(eng.value))

C8_Witness ==
    /\ op = "call_contract"
    /\ Len(calls) = 1
    /\ eng.kind = "ok"
    /\ eng.value = MaxPayload
    /\ resp.status = 200

\* C9: a get_state_update request that supplies both blockHash and blockNumber
\* is not rejected as ambiguous: the hash and the parsed number go together
\* into one get_state_update call, the response is 200 with the engine's result
\* when the engine returns, and a 500 is the engine's own failure.
C9_StateUpdateForwardsBoth ==
    (op = "get_state_update" /\ args.blockHash # None /\ args.blockNumber # None)
    => /\ calls = <<Call("get_state_update",
                         <<args.blockHash, ArgsGetInt(args.blockNumber)>>)>>
       /\ eng.kind = "ok" => resp = Return(jsonify(eng.value))
       /\ resp.kind = "abort"
            => /\ eng.kind = "raise"
               /\ resp = Abort(Text(<<eng.exc.message>>), 500)

C9_Witness ==
    /\ op = "get_state_update"
    /\ args.blockHash # None
    /\ ArgsGetInt(args.blockNumber) # None
    /\ Len(calls) = 1
    /\ resp.kind = "return"

\* C10: for get_code, get_full_contract and get_storage_at the blockHash
\* parameter does not influence the outcome: the same request with any other
\* blockHash (absent, an integer, or a text that is none) and the same engine
\* answer invokes the same engine operation with the same arguments and gets
\* the same response.
C10_BlockHashIgnored ==
    op \in HashCheckedOps
    => \A h \in Param(MaxShort) :
          LET other == HashCheckedHandler(op, [args EXCEPT !.blockHash = h], eng) IN
          /\ other.calls = calls
          /\ other.resp = resp

C10_Witness ==
    /\ op = "get_code"
    /\ ArgsGetInt(args.blockHash) # None
    /\ log = <<HashNotice>>
    /\ resp.kind = "return"

====
